---- MODULE Spec2Model ----
(***************************************************************************)
(* Model of the GitHub Enterprise health checks for Google SecOps:         *)
(*   - secops_api/search/udm_search.py        (rate-limit-aware udm_search)*)
(*   - secops_api/search/udm_search_legacy.py (legacy udm_search)          *)
(*   - secops_api/detection_engine/search_detections.py                    *)
(*   - health-check-github-validate-alert-generation/main.py               *)
(*   - health-check-github-validate-log-ingestion/main.py                  *)
(* One behaviour is one process running one entry point (prog); the        *)
(* alert-generation main may be invoked again in the same process.  Every  *)
(* HTTP exchange is synchronous: the i-th entry of responses answers the   *)
(* i-th entry of requests.  requests, responses, printed and sleeps record *)
(* what the current invocation did to the outside world.                   *)
(***************************************************************************)
EXTENDS Integers, Sequences, FiniteSets, TLC

VARIABLES
    prog,              \* entry point of this invocation
    pc,                \* position of the invocation in its code
    max_retries,       \* udm_search argument
    limit,             \* udm_search argument
    RULE_ID,           \* alert-generation main.py module globals
    START_TIME,
    END_TIME,
    HTTP_SESSION,      \* the session in use: the invocation that created it
    invocation,        \* number of the current invocation in this process
    now,               \* wall clock at the start of the current invocation
    logged_count,      \* validate_github_log_ingestion: the event count it logs
    requests,          \* HTTP requests issued, in order
    responses,         \* HTTP responses received, in order
    printed,           \* what was written with print(), in order
    sleeps,            \* durations passed to time.sleep(), in order
    attempt,           \* udm_search: iterations of the for loop already finished
    response,          \* udm_search: the local variable response
    raw_detections,    \* validate_detection_generation: the accumulator
    next_page_token,   \* validate_detection_generation: the cursor
    relevant_alerts,   \* validate_alert_generation: the filtered alerts
    outcome            \* how the invocation ended

vars == <<prog, pc, max_retries, limit, RULE_ID, START_TIME, END_TIME, HTTP_SESSION,
          invocation, now, logged_count, requests, responses, printed, sleeps,
          attempt, response, raw_detections, next_page_token, relevant_alerts,
          outcome>>

\* arguments and module globals: no step changes them
inputs == <<prog, max_retries, limit, RULE_ID, START_TIME, END_TIME, HTTP_SESSION>>
\* the invocation under way and what the log-ingestion check reports
process == <<invocation, now, logged_count>>
\* locals of the alert-generation check
alertLocals == <<raw_detections, next_page_token, relevant_alerts>>

-----------------------------------------------------------------------------
(* Bounds of the exploration *)

MaxRetries == 3        \* largest max_retries argument explored
MaxPages == 3          \* largest number of detections page calls explored
MaxInvocations == 2    \* invocations of main explored in one process

-----------------------------------------------------------------------------
(* Python values *)

\* An optional value: None is the empty set, a present value v is {v}.
None == {}
Some(v) == {v}
TheOne(s) == CHOOSE v \in s : TRUE

\* The body of a response is its JSON text, kept as the list of the members
\* <<key, value>> of the top-level object in wire order.  response.json()
\* turns it into a mapping.
json(text) ==
    [k \in {text[i][1] : i \in DOMAIN text} |->
        text[CHOOSE i \in DOMAIN text : text[i][1] = k][2]]

\* dict.get(key): None when the key is absent
Get(d, k) == IF k \in DOMAIN d THEN Some(d[k]) ELSE None

\* requests.Response.raise_for_status(): raises HTTPError for 4xx and 5xx
raise_for_status(status_code) == 400 <= status_code /\ status_code < 600

\* http_session.request(method="GET", url=url, params=params): params is the
\* mapping the facade passes, sent the query parameters that go out.  The
\* requests library leaves out every parameter whose value is None.
SentParams(params) ==
    [k \in {key \in DOMAIN params : params[key] # None} |-> TheOne(params[k])]
Request(session, endpoint, params) ==
    [session |-> session, endpoint |-> endpoint, method |-> "GET",
     params |-> params, sent |-> SentParams(params)]

\* time.sleep(60) in udm_search
BACKOFF_SECONDS == 60

\* default of the max_retries argument of udm_search
DEFAULT_MAX_RETRIES == 3

-----------------------------------------------------------------------------
(* The backend: what it may answer *)

ErrorStatuses == {403, 429, 500}
ErrorText(s) == << <<"error", s>> >>
ErrorResponses == {[status_code |-> s, text |-> ErrorText(s)] : s \in ErrorStatuses}

UdmTexts == { <<>>,
              << <<"events", <<>> >> >>,
              << <<"events", <<"e1", "e2">> >> >> }
UdmResponses == {[status_code |-> 200, text |-> t] : t \in UdmTexts} \cup ErrorResponses

ItemLists == { <<>>, <<"d1">>, <<"d2", "d3">> }
Tokens == {"", "tok1", "tok2"}
PageText(items, token) ==
    (IF items = None THEN <<>> ELSE << <<"detections", TheOne(items)>> >>)
    \o (IF token = None THEN <<>> ELSE << <<"nextPageToken", TheOne(token)>> >>)
DetectionsTexts ==
    {PageText(items, token) :
        items \in {None} \cup {Some(l) : l \in ItemLists},
        token \in {None} \cup {Some(t) : t \in Tokens}}
DetectionsResponses ==
    {[status_code |-> 200, text |-> t] : t \in DetectionsTexts} \cup ErrorResponses

RuleIds == {"ru_A", "ru_C"}
Alert(n, rule) == [id |-> n, ruleMetadata |-> [ruleId |-> rule]]
RuleAlertsTexts ==
    { <<>>,
      << <<"tooManyAlerts", TRUE>> >>,
      << <<"ruleAlerts", <<>> >> >>,
      << <<"ruleAlerts", <<Alert(1, "ru_B")>> >> >>,
      << <<"ruleAlerts", <<Alert(1, "ru_A"), Alert(2, "ru_B"), Alert(3, "ru_A")>> >> >> }
RuleAlertsResponses ==
    {[status_code |-> 200, text |-> t] : t \in RuleAlertsTexts} \cup ErrorResponses

-----------------------------------------------------------------------------
(* Inputs *)

Programs == {"udm_search", "udm_search_legacy", "main", "validate_github_log_ingestion"}
\* the entry points that run the rate-limit-aware udm_search
UdmCallers == {"udm_search", "validate_github_log_ingestion"}
Limits == {None, Some(100), Some(20000)}

\* the query of validate_github_log_ingestion, the caller of udm_search
UDM_QUERY == "metadata.log_type = \"GITHUB\" AND ..."

\* CURRENT_TIME in hours since 2024-01-01T00:00:00
CURRENT_TIME == 48
WindowHours == {1, 24}

\* datetime_converter.strftime: %Y-%m-%dT%H:%M:%SZ, for the instants of
\* January 2024 on the hour
TwoDigits ==
    <<"00", "01", "02", "03", "04", "05", "06", "07", "08", "09", "10", "11",
      "12", "13", "14", "15", "16", "17", "18", "19", "20", "21", "22", "23",
      "24", "25", "26", "27", "28", "29", "30", "31">>
strftime(t) ==
    "2024-01-" \o TwoDigits[(t \div 24) + 2] \o "T" \o TwoDigits[(t % 24) + 1] \o ":00:00Z"

NoResponse == [status_code |-> 0, text |-> <<>>]
Running == [kind |-> "running"]
HTTPError(status_code) == [kind |-> "HTTPError", detail |-> status_code]
Exception(message) == [kind |-> "Exception", detail |-> message]
KeyError(key) == [kind |-> "KeyError", detail |-> key]
Return(value) == [kind |-> "return", detail |-> value]

Init ==
    /\ prog \in Programs
    /\ pc = CASE prog = "main" -> "validate_detection_generation"
              [] prog = "validate_github_log_ingestion" -> "udm_search"
              [] OTHER -> prog
    /\ max_retries \in (IF prog = "udm_search" THEN 0..MaxRetries ELSE {DEFAULT_MAX_RETRIES})
    /\ limit \in (IF prog \in {"udm_search", "udm_search_legacy"} THEN Limits ELSE {None})
    /\ RULE_ID \in (IF prog = "main" THEN RuleIds ELSE {"ru_A"})
    /\ END_TIME = strftime(CURRENT_TIME)
    /\ START_TIME \in (IF prog \in {"main", "validate_github_log_ingestion"}
                       THEN {strftime(CURRENT_TIME - h) : h \in WindowHours}
                       ELSE {strftime(CURRENT_TIME - 1)})
    /\ HTTP_SESSION = 1
    /\ invocation = 1
    /\ now = CURRENT_TIME
    /\ logged_count = None
    /\ requests = <<>>
    /\ responses = <<>>
    /\ printed = <<>>
    /\ sleeps = <<>>
    /\ attempt = 0
    /\ response = NoResponse
    /\ raw_detections = <<>>
    /\ next_page_token = None
    /\ relevant_alerts = <<>>
    /\ outcome = Running

-----------------------------------------------------------------------------
(* udm_search.py: the rate-limit-aware udm_search *)

UdmSearchParams(query, start_time, end_time, lim) ==
    [query |-> Some(query), time_range_start_time |-> Some(start_time),
     time_range_end_time |-> Some(end_time), limit |-> lim]

\* off by one: range(max_retries)
RangeLenOffByOne(mr) == mr

\* range(max_retries + 1): the number of iterations of the for loop
RangeLen(mr) == mr + 1

\* retrying every error status instead of 429 only
ShouldBreakOnSuccess(status_code) == status_code < 400

\* if response.status_code != 429: break
ShouldBreak(status_code) == status_code # 429

\* One iteration of the for loop up to the break test: issue the request and
\* receive the response.
UdmSearchRequest ==
    /\ prog \in UdmCallers /\ pc = "udm_search"
    /\ attempt < RangeLen(max_retries)
    /\ \E resp \in UdmResponses :
        /\ requests' = Append(requests,
              Request(HTTP_SESSION, ":udmSearch",
                      UdmSearchParams(UDM_QUERY, START_TIME, END_TIME, limit)))
        /\ responses' = Append(responses, resp)
        /\ response' = resp
        /\ pc' = IF ShouldBreak(resp.status_code) THEN "raise_for_status" ELSE "backoff"
    /\ UNCHANGED <<inputs, process, alertLocals, printed, sleeps, attempt, outcome>>

\* The rest of the iteration after a 429: two prints, the sleep, and the
\* step of the for loop.
UdmSearchBackoff ==
    /\ prog \in UdmCallers /\ pc = "backoff"
    /\ printed' = printed \o << <<"text", response.text>>,
                               <<"msg", "API rate limit exceeded. Sleeping for 60s before retrying">> >>
    /\ sleeps' = Append(sleeps, BACKOFF_SECONDS)
    /\ attempt' = attempt + 1
    /\ pc' = IF attempt + 1 < RangeLen(max_retries) THEN "udm_search" ELSE "raise_for_status"
    /\ UNCHANGED <<inputs, process, alertLocals, requests, responses, response, outcome>>

\* udm_search without the call of raise_for_status
UdmSearchReturnNoRaise ==
    /\ prog \in UdmCallers /\ pc = "raise_for_status"
    /\ outcome' = Return(json(response.text))
    /\ pc' = IF prog = "udm_search" THEN "done" ELSE "validate_github_log_ingestion"
    /\ UNCHANGED <<inputs, process, alertLocals, requests, responses, printed, sleeps, attempt,
                   response>>

\* response.raise_for_status(); return response.json()
UdmSearchReturn ==
    /\ prog \in UdmCallers /\ pc = "raise_for_status"
    /\ outcome' = IF raise_for_status(response.status_code)
                  THEN HTTPError(response.status_code)
                  ELSE Return(json(response.text))
    /\ pc' = IF prog = "udm_search" THEN "done" ELSE "validate_github_log_ingestion"
    /\ UNCHANGED <<inputs, process, alertLocals, requests, responses, printed, sleeps, attempt,
                   response>>

-----------------------------------------------------------------------------
(* udm_search_legacy.py: udm_search without retries *)

\* if response.status_code >= 400: print(response.text); raise_for_status()
IsErrorStatus(status_code) == status_code >= 400

UdmSearchLegacy ==
    /\ prog = "udm_search_legacy" /\ pc = "udm_search_legacy"
    /\ \E resp \in UdmResponses :
        /\ requests' = Append(requests,
              Request(HTTP_SESSION, "events:udmSearch",
                      UdmSearchParams(UDM_QUERY, START_TIME, END_TIME, limit)))
        /\ responses' = Append(responses, resp)
        /\ response' = resp
        /\ printed' = IF IsErrorStatus(resp.status_code)
                      THEN Append(printed, <<"text", resp.text>>) ELSE printed
        /\ outcome' = IF IsErrorStatus(resp.status_code) /\ raise_for_status(resp.status_code)
                      THEN HTTPError(resp.status_code)
                      ELSE Return(json(resp.text))
    /\ pc' = "done"
    /\ UNCHANGED <<inputs, process, alertLocals, sleeps, attempt>>

-----------------------------------------------------------------------------
(* search_detections.py *)

\* sending an empty string for every argument left at None
SearchDetectionsParamsBlank(rule_id, alert_state, start_time, end_time, list_basis, page_size, page_token) ==
    LET Blank(v) == IF v = None THEN Some("") ELSE v IN
    [rule_id |-> rule_id, alert_state |-> Blank(alert_state),
     start_time |-> Blank(start_time), end_time |-> Blank(end_time),
     list_basis |-> Blank(list_basis), page_size |-> Blank(page_size),
     page_token |-> Blank(page_token)]

SearchDetectionsParams(rule_id, alert_state, start_time, end_time, list_basis, page_size, page_token) ==
    [rule_id |-> rule_id, alert_state |-> alert_state, start_time |-> start_time,
     end_time |-> end_time, list_basis |-> list_basis, page_size |-> page_size,
     page_token |-> page_token]

\* What search_detections does with the response: the HTTP error it raises,
\* or the pair it returns.
SearchDetectionsResult(resp) ==
    IF IsErrorStatus(resp.status_code) /\ raise_for_status(resp.status_code)
    THEN [raised |-> TRUE, status_code |-> resp.status_code,
          detections |-> None, nextPageToken |-> None]
    ELSE [raised |-> FALSE, status_code |-> resp.status_code,
          detections |-> Get(json(resp.text), "detections"),
          nextPageToken |-> Get(json(resp.text), "nextPageToken")]

-----------------------------------------------------------------------------
(* alert-generation main.py *)

\* the call without page_token=next_page_token
DetectionsCallParamsNoToken(page_token) ==
    SearchDetectionsParams(Some(RULE_ID), None, Some(START_TIME), Some(END_TIME),
                           Some("CREATED_TIME"), None, None)

\* the arguments validate_detection_generation passes to search_detections
DetectionsCallParams(page_token) ==
    SearchDetectionsParams(Some(RULE_ID), None, Some(START_TIME), Some(END_TIME),
                           Some("CREATED_TIME"), None, page_token)

\* if not retrieved_detections: raise (an empty list is falsy too)
IsAbsentOrEmpty(retrieved_detections) ==
    retrieved_detections = None \/ retrieved_detections = Some(<<>>)

\* if retrieved_detections is None: raise
IsAbsent(retrieved_detections) == retrieved_detections = None

\* raw_detections = retrieved_detections: assigning instead of extending
ExtendReplace(acc, items) == items

\* inserting the new page in front of the accumulator
ExtendPrepend(acc, items) == items \o acc

\* raw_detections.extend(retrieved_detections)
Extend(acc, items) == acc \o items

\* if next_page_token is not None:
TruthyNotNone(token) == token # None

\* a loop that gives up after its second page
TruthyWithPageCap(token) == token # None /\ token # Some("") /\ Len(requests) < 1

\* if next_page_token: (None and the empty string are falsy)
Truthy(token) == token # None /\ token # Some("")

\* main swallowing the exception of validate_detection_generation
MainAfterStageASwallow(raised) == "validate_alert_generation"

\* main: validate_detection_generation(); validate_alert_generation().  An
\* exception raised by the first call leaves main.
MainAfterStageA(raised) == IF raised THEN "done" ELSE "validate_alert_generation"

NO_DETECTIONS == "No detections found for rule ID"
NO_ALERTS_ANY_RULE == "No alerts found for any rules"
NO_ALERTS_FOR_RULE == "No alerts found for rule ID"

\* One iteration of the while loop of validate_detection_generation: the
\* call of search_detections and everything up to the next call or the
\* end of the function.
ValidateDetectionGeneration ==
    /\ prog = "main" /\ pc = "validate_detection_generation"
    /\ Len(requests) < MaxPages
    /\ \E resp \in DetectionsResponses :
        LET res == SearchDetectionsResult(resp) IN
        /\ requests' = Append(requests,
              Request(HTTP_SESSION, "legacy:legacySearchDetections",
                      DetectionsCallParams(next_page_token)))
        /\ responses' = Append(responses, resp)
        /\ printed' = IF IsErrorStatus(resp.status_code)
                      THEN Append(printed, <<"text", resp.text>>) ELSE printed
        /\ IF res.raised
           THEN /\ outcome' = HTTPError(res.status_code)
                /\ pc' = MainAfterStageA(TRUE)
                /\ UNCHANGED <<raw_detections, next_page_token>>
           ELSE /\ next_page_token' = res.nextPageToken
                /\ IF IsAbsent(res.detections)
                   THEN /\ outcome' = Exception(NO_DETECTIONS)
                        /\ pc' = MainAfterStageA(TRUE)
                        /\ UNCHANGED raw_detections
                   ELSE /\ raw_detections' = Extend(raw_detections, TheOne(res.detections))
                        /\ pc' = IF Truthy(res.nextPageToken)
                                 THEN "validate_detection_generation"
                                 ELSE MainAfterStageA(FALSE)
                        /\ UNCHANGED outcome
    /\ UNCHANGED <<inputs, process, sleeps, attempt, response, relevant_alerts>>

\* secops_api/search/search_rules_alerts.py is not part of the sources at hand:
\* a single GET over the time window that, like the other facades, prints the
\* body and raises on an error status and returns the parsed body otherwise.
SearchRulesAlertsParams(start_time, end_time) ==
    [start_time |-> start_time, end_time |-> end_time]
SearchRulesAlertsRaises(resp) ==
    IsErrorStatus(resp.status_code) /\ raise_for_status(resp.status_code)

\* keeping every alert, whatever its rule
IsRelevantAny(alert) == TRUE

\* for alert in retrieved_alerts["ruleAlerts"]: keep those of RULE_ID
IsRelevant(alert) == alert.ruleMetadata.ruleId = RULE_ID

\* how validate_alert_generation ends, given the mapping it retrieved
AlertGenerationOutcome(retrieved_alerts) ==
    IF DOMAIN retrieved_alerts = {}
    THEN Exception(NO_ALERTS_ANY_RULE)
    ELSE IF "ruleAlerts" \notin DOMAIN retrieved_alerts
    THEN KeyError("ruleAlerts")
    ELSE IF Len(SelectSeq(retrieved_alerts["ruleAlerts"], IsRelevant)) = 0
    THEN Exception(NO_ALERTS_FOR_RULE)
    ELSE Return("OK")

\* validate_alert_generation, and the return "OK" of main after it
ValidateAlertGeneration ==
    /\ prog = "main" /\ pc = "validate_alert_generation"
    /\ \E resp \in RuleAlertsResponses :
        /\ requests' = Append(requests,
              Request(HTTP_SESSION, "legacy:legacySearchRulesAlerts",
                      SearchRulesAlertsParams(Some(START_TIME), Some(END_TIME))))
        /\ responses' = Append(responses, resp)
        /\ IF SearchRulesAlertsRaises(resp)
           THEN /\ printed' = Append(printed, <<"text", resp.text>>)
                /\ outcome' = HTTPError(resp.status_code)
                /\ UNCHANGED relevant_alerts
           ELSE /\ printed' = printed
                /\ outcome' = AlertGenerationOutcome(json(resp.text))
                /\ relevant_alerts' =
                      IF "ruleAlerts" \in DOMAIN json(resp.text)
                      THEN SelectSeq(json(resp.text)["ruleAlerts"], IsRelevant)
                      ELSE <<>>
    /\ pc' = "done"
    /\ UNCHANGED <<inputs, process, sleeps, attempt, response, raw_detections, next_page_token>>

\* The platform calls main again in the process that already served an
\* invocation: the module is not loaded again, so the module globals keep the
\* values computed at load time; the locals of the functions start afresh.
MainInvokedAgain ==
    /\ prog = "main" /\ pc = "done"
    /\ invocation < MaxInvocations
    /\ invocation' = invocation + 1
    /\ now' = now + 1
    /\ pc' = "validate_detection_generation"
    /\ requests' = <<>>
    /\ responses' = <<>>
    /\ printed' = <<>>
    /\ sleeps' = <<>>
    /\ raw_detections' = <<>>
    /\ next_page_token' = None
    /\ relevant_alerts' = <<>>
    /\ outcome' = Running
    /\ UNCHANGED <<inputs, logged_count, attempt, response>>

-----------------------------------------------------------------------------
(* log-ingestion main.py *)

\* only checking for a missing events field
NoEventsOnlyAbsent(events) == events = None

\* if not response.get("events"): an absent and an empty list are falsy
NoEvents(events) == events = None \/ Len(TheOne(events)) = 0

ZERO_EVENTS == "0 events returned from UDM search"

\* validate_github_log_ingestion after its call of udm_search: outcome holds
\* what udm_search returned or raised.  An exception of udm_search leaves the
\* function; otherwise the events of the response decide.
ValidateGithubLogIngestion ==
    /\ prog = "validate_github_log_ingestion" /\ pc = "validate_github_log_ingestion"
    /\ IF outcome.kind = "HTTPError"
       THEN UNCHANGED <<outcome, logged_count>>
       ELSE LET events == Get(outcome.detail, "events") IN
            IF NoEvents(events)
            THEN outcome' = Exception(ZERO_EVENTS) /\ UNCHANGED logged_count
            ELSE outcome' = Return("OK") /\ logged_count' = Some(Len(TheOne(events)))
    /\ pc' = "done"
    /\ UNCHANGED <<inputs, invocation, now, alertLocals, requests, responses, printed,
                   sleeps, attempt, response>>

-----------------------------------------------------------------------------

Next ==
    \/ UdmSearchRequest
    \/ UdmSearchBackoff
    \/ UdmSearchReturn
    \/ UdmSearchLegacy
    \/ ValidateDetectionGeneration
    \/ ValidateAlertGeneration
    \/ MainInvokedAgain
    \/ ValidateGithubLogIngestion

Spec == Init /\ [][Next]_vars

\* The invocation is one thread running to completion: while the loop of
\* validate_detection_generation is at a call of search_detections, the call
\* is made and answered.
FairSpec == Spec /\ WF_vars(ValidateDetectionGeneration)

TypeOK ==
    /\ prog \in Programs
    /\ max_retries \in 0..MaxRetries
    /\ attempt \in 0..(MaxRetries + 1)
    /\ Len(requests) = Len(responses)
    /\ outcome.kind \in {"running", "HTTPError", "Exception", "KeyError", "return"}

-----------------------------------------------------------------------------
(* Properties of the rate-limit-aware udm_search *)

All429(rs) == \A i \in DOMAIN rs : rs[i].status_code = 429
LastResponse == responses[Len(responses)]
UdmFinished == prog = "udm_search" /\ pc = "done"

\* C1: one call of the rate-limit-aware udm_search issues a further request
\* only after a response with status 429, issues at most max_retries + 1
\* requests, issues no request after a response with another status, and
\* when the first response is not 429 it performs one request and no sleep.
C1_RetryOnlyOn429 ==
    prog = "udm_search" =>
        /\ \A i \in 2..Len(requests) : responses[i - 1].status_code = 429
        /\ Len(requests) <= max_retries + 1
        /\ \A i \in DOMAIN responses :
              responses[i].status_code # 429 => i = Len(requests)
        /\ (Len(responses) >= 1 /\ responses[1].status_code # 429)
              => (Len(requests) = 1 /\ Len(sleeps) = 0)

\* two 429 responses were retried and a 500 then ended the call at once
C1_Witness ==
    /\ UdmFinished
    /\ Len(requests) = 3
    /\ max_retries = 3
    /\ LastResponse.status_code = 500
    /\ outcome.kind = "HTTPError"

\* C2 (as claimed): a sleep happens only when the response is 429 and
\* retries remain, so the sleeps never exceed max_retries and at the end of
\* the call their number is the number of requests minus one.
C2_SleepOnlyBeforeRetry ==
    prog = "udm_search" =>
        /\ Len(sleeps) <= max_retries
        /\ pc \in {"raise_for_status", "done"} => Len(sleeps) = Len(requests) - 1

\* C3: when the responses are k <= max_retries times 429 and then a success,
\* the call performs k + 1 requests and k sleeps of 60 seconds and returns
\* the body of the final response; and after k <= max_retries responses that
\* were all 429 the call has not given up.
C3_SuccessAfterRetries ==
    prog = "udm_search" =>
        /\ (pc = "done" /\ LastResponse.status_code = 200) =>
              /\ All429(SubSeq(responses, 1, Len(responses) - 1))
              /\ Len(responses) - 1 <= max_retries
              /\ Len(requests) = Len(responses)
              /\ Len(sleeps) = Len(responses) - 1
              /\ \A i \in DOMAIN sleeps : sleeps[i] = 60
              /\ outcome.kind = "return"
              /\ outcome.detail = json(LastResponse.text)
        /\ (All429(responses) /\ Len(responses) <= max_retries) =>
              pc \in {"udm_search", "backoff"}

\* 429, 429, 200 with max_retries = 3: two sleeps and the body of the 200
C3_Witness ==
    /\ UdmFinished
    /\ max_retries = 3
    /\ Len(responses) = 3
    /\ responses[1].status_code = 429 /\ responses[2].status_code = 429
    /\ responses[3].status_code = 200
    /\ sleeps = <<60, 60>>
    /\ outcome.kind = "return"
    /\ DOMAIN outcome.detail = {"events"}
    /\ outcome.detail["events"] = <<"e1", "e2">>

\* C4: when every response is 429 the call stops after max_retries + 1
\* requests with an HTTP error of status 429, and a final status >= 400
\* always ends in an HTTP error carrying that status, never in a returned
\* body.
C4_ExhaustedRetriesFail ==
    UdmFinished =>
        /\ All429(responses) =>
              /\ Len(requests) = max_retries + 1
              /\ outcome.kind = "HTTPError" /\ outcome.detail = 429
        /\ LastResponse.status_code >= 400 =>
              /\ outcome.kind = "HTTPError"
              /\ outcome.detail = LastResponse.status_code

\* every one of the max_retries + 1 = 3 requests was answered 429
C4_Witness ==
    /\ UdmFinished
    /\ max_retries = 2
    /\ Len(requests) = 3
    /\ All429(responses)
    /\ outcome.kind = "HTTPError" /\ outcome.detail = 429

\* C5 (as claimed): whenever a facade call fails with an HTTP error, the
\* body of the final response has been printed.
C5_BodyPrintedBeforeError ==
    (outcome.kind = "HTTPError" /\ Len(responses) >= 1) =>
        \E i \in DOMAIN printed : printed[i] = <<"text", LastResponse.text>>

-----------------------------------------------------------------------------
(* Properties of the alert-generation check *)

DETECTIONS_ENDPOINT == "legacy:legacySearchDetections"
RULE_ALERTS_ENDPOINT == "legacy:legacySearchRulesAlerts"

\* the detections page calls are the first NumPageCalls requests
NumPageCalls == Cardinality({i \in DOMAIN requests : requests[i].endpoint = DETECTIONS_ENDPOINT})
NumAlertCalls == Cardinality({i \in DOMAIN requests : requests[i].endpoint = RULE_ALERTS_ENDPOINT})

\* what a page response carries, read from its body
PageIsError(resp) == resp.status_code >= 400
PageHasItems(resp) == \E j \in DOMAIN resp.text : resp.text[j][1] = "detections"
PageItems(resp) == resp.text[CHOOSE j \in DOMAIN resp.text : resp.text[j][1] = "detections"][2]
PageCursor(resp) ==
    IF \E j \in DOMAIN resp.text : resp.text[j][1] = "nextPageToken"
    THEN resp.text[CHOOSE j \in DOMAIN resp.text : resp.text[j][1] = "nextPageToken"][2]
    ELSE ""
\* a page carries a continuation cursor when the token is present and not empty
PageHasCursor(resp) == PageCursor(resp) # ""
PageFailed(resp) == PageIsError(resp) \/ ~PageHasItems(resp)

RECURSIVE ConcatPages(_)
ConcatPages(pages) ==
    IF pages = <<>> THEN <<>>
    ELSE ConcatPages(SubSeq(pages, 1, Len(pages) - 1)) \o PageItems(pages[Len(pages)])

\* validate_detection_generation has returned
StageAReturned ==
    /\ prog = "main"
    /\ \/ pc = "validate_alert_generation"
       \/ pc = "done" /\ NumAlertCalls > 0

\* C6: when validate_detection_generation finishes without failure,
\* raw_detections is the concatenation, in call order, of the item lists of
\* all pages received.
C6_AccumulatorIsConcatenation ==
    StageAReturned =>
        raw_detections = ConcatPages(SubSeq(responses, 1, NumPageCalls))

\* pages [d1] with cursor tok1, then [d2, d3] without cursor
C6_Witness ==
    /\ StageAReturned
    /\ NumPageCalls = 2
    /\ PageItems(responses[1]) = <<"d1">> /\ PageCursor(responses[1]) = "tok1"
    /\ PageItems(responses[2]) = <<"d2", "d3">> /\ ~PageHasCursor(responses[2])
    /\ raw_detections = <<"d1", "d2", "d3">>

\* C7 (as claimed): the no-detections failure is raised if and only if the
\* first page call returns an absent item list.
C7_AbsenceOnlyOnFirstPage ==
    prog = "main" =>
        ((outcome.kind = "Exception" /\ outcome.detail = NO_DETECTIONS)
            <=> (Len(responses) >= 1 /\ ~PageIsError(responses[1])
                 /\ ~PageHasItems(responses[1])))

\* C8: a further page request is issued exactly after a page with a
\* non-absent item list and a continuation cursor, one request per such
\* page; the loop has ended normally exactly when the last page received has
\* items and no cursor, and no page request follows a page without a cursor.
C8_LoopStateInv ==
    (prog = "main" /\ NumPageCalls >= 1) =>
        /\ \A i \in 1..(NumPageCalls - 1) :
              ~PageFailed(responses[i]) /\ PageHasCursor(responses[i])
        /\ (~PageFailed(responses[NumPageCalls]) /\ PageHasCursor(responses[NumPageCalls]))
              <=> pc = "validate_detection_generation"
        /\ (~PageFailed(responses[NumPageCalls]) /\ ~PageHasCursor(responses[NumPageCalls]))
              <=> StageAReturned
C8_LoopStep ==
    (prog = "main" /\ pc = "validate_detection_generation")
        => (NumPageCalls' = NumPageCalls + 1 /\ Len(requests') = Len(requests) + 1)
C8_CollectionStopsWithoutCursor == []C8_LoopStateInv /\ [][C8_LoopStep]_vars

\* a page with a cursor was followed by one more request, whose page had no
\* cursor and ended the loop
C8_Witness ==
    /\ prog = "main" /\ pc = "validate_alert_generation"
    /\ NumPageCalls = 2 /\ Len(requests) = 2
    /\ PageHasCursor(responses[1])
    /\ ~PageHasCursor(responses[2])

\* C9: the first page request carries no page token, the page token of call
\* n + 1 is the cursor returned by call n, and every other parameter is the
\* same on all page requests: rule_id, start_time, end_time, list_basis =
\* CREATED_TIME, and alert_state and page_size left unset.
C9_CursorStaysWithItsQuery ==
    prog = "main" =>
        \A i \in 1..NumPageCalls :
            LET p == requests[i].params IN
            /\ requests[i].endpoint = DETECTIONS_ENDPOINT
            /\ p.page_token = (IF i = 1 THEN None ELSE Some(PageCursor(responses[i - 1])))
            /\ p.rule_id = Some(RULE_ID)
            /\ p.start_time = Some(START_TIME)
            /\ p.end_time = Some(END_TIME)
            /\ p.list_basis = Some("CREATED_TIME")
            /\ p.alert_state = None
            /\ p.page_size = None
            /\ \A f \in DOMAIN p \ {"page_token"} : p[f] = requests[1].params[f]

\* three page calls, the second and third carrying the cursors tok1 and tok2
C9_Witness ==
    /\ prog = "main"
    /\ NumPageCalls = 3
    /\ requests[1].params.page_token = None
    /\ PageCursor(responses[1]) = "tok1" /\ requests[2].params.page_token = Some("tok1")
    /\ PageCursor(responses[2]) = "tok2" /\ requests[3].params.page_token = Some("tok2")

\* C10: the rule-alerts request is issued only after Stage A completed
\* successfully, and after a failed Stage A page call (absent item list or
\* HTTP error) no request of any kind is issued and main does not return
\* "OK".
C10_StageAFailureIsTerminal ==
    prog = "main" =>
        /\ \A i \in DOMAIN requests :
              requests[i].endpoint = RULE_ALERTS_ENDPOINT =>
                  /\ i = NumPageCalls + 1 /\ i = Len(requests) /\ NumPageCalls >= 1
                  /\ \A j \in 1..NumPageCalls : ~PageFailed(responses[j])
                  /\ ~PageHasCursor(responses[NumPageCalls])
        /\ \A i \in 1..NumPageCalls :
              PageFailed(responses[i]) =>
                  /\ i = Len(requests)
                  /\ NumAlertCalls = 0
                  /\ pc = "done"
                  /\ outcome.kind \in {"HTTPError", "Exception"}
        /\ outcome.kind = "return" => NumAlertCalls = 1

\* the second page call failed with an HTTP error and nothing followed
C10_Witness ==
    /\ prog = "main" /\ pc = "done"
    /\ Len(requests) = 2 /\ NumPageCalls = 2
    /\ PageIsError(responses[2])
    /\ outcome.kind = "HTTPError"

-----------------------------------------------------------------------------
(* Properties of Stage B *)

\* validate_alert_generation received a successful rule-alerts response
StageBAnswered ==
    /\ prog = "main" /\ pc = "done" /\ NumAlertCalls = 1
    /\ LastResponse.status_code = 200
HasRuleAlerts(resp) == \E j \in DOMAIN resp.text : resp.text[j][1] = "ruleAlerts"
ReturnedAlerts(resp) ==
    resp.text[CHOOSE j \in DOMAIN resp.text : resp.text[j][1] = "ruleAlerts"][2]

RECURSIVE AlertsOfRule(_, _)
AlertsOfRule(alerts, rule) ==
    IF alerts = <<>> THEN <<>>
    ELSE LET rest == AlertsOfRule(Tail(alerts), rule) IN
         IF Head(alerts).ruleMetadata.ruleId = rule THEN <<Head(alerts)>> \o rest ELSE rest

\* C11: relevant_alerts is exactly the sub-sequence of the returned alerts
\* whose ruleMetadata.ruleId equals RULE_ID, in order and with multiplicity,
\* and validate_alert_generation succeeds if that sub-sequence is non-empty
\* and fails if it is empty.
C11_FilterIsEqualityOnRuleId ==
    (StageBAnswered /\ HasRuleAlerts(LastResponse)) =>
        LET expected == AlertsOfRule(ReturnedAlerts(LastResponse), RULE_ID) IN
        /\ relevant_alerts = expected
        /\ expected # <<>> => (outcome.kind = "return" /\ outcome.detail = "OK")
        /\ expected = <<>> => (outcome.kind = "Exception" /\ outcome.detail = NO_ALERTS_FOR_RULE)

\* alerts of the rules A, B, A with target A: the two A-alerts are kept
C11_Witness ==
    /\ StageBAnswered /\ HasRuleAlerts(LastResponse)
    /\ RULE_ID = "ru_A"
    /\ Len(ReturnedAlerts(LastResponse)) = 3
    /\ relevant_alerts = <<Alert(1, "ru_A"), Alert(3, "ru_A")>>
    /\ outcome.kind = "return"

\* C12 (as claimed): whenever the rule-alerts response holds no alerts (the
\* ruleAlerts field is absent or an empty list, whatever else the response
\* holds), validate_alert_generation fails with its own no-alerts Exception
\* and with no other kind of error.
C12_NoAlertsIsDataAbsence ==
    (StageBAnswered
        /\ (~HasRuleAlerts(LastResponse) \/ ReturnedAlerts(LastResponse) = <<>>)) =>
        /\ outcome.kind = "Exception"
        /\ outcome.detail \in {NO_ALERTS_ANY_RULE, NO_ALERTS_FOR_RULE}

-----------------------------------------------------------------------------
(* Properties of the log-ingestion check *)

HasEvents(resp) == \E j \in DOMAIN resp.text : resp.text[j][1] = "events"
EventsOf(resp) ==
    IF HasEvents(resp)
    THEN resp.text[CHOOSE j \in DOMAIN resp.text : resp.text[j][1] = "events"][2]
    ELSE <<>>

\* C13: for a successful UDM search response, validate_github_log_ingestion
\* has run the search once and returns "OK", reporting the number of events,
\* if and only if the response has an events field with at least one event;
\* otherwise it raises the zero-events failure.
C13_LogIngestionVerdict ==
    (prog = "validate_github_log_ingestion" /\ pc = "done"
        /\ LastResponse.status_code = 200) =>
        /\ \A i \in DOMAIN requests :
              /\ requests[i] = requests[1]
              /\ responses[i].status_code = 200 <=> i = Len(requests)
        /\ IF Len(EventsOf(LastResponse)) >= 1
           THEN /\ outcome.kind = "return" /\ outcome.detail = "OK"
                /\ logged_count = Some(Len(EventsOf(LastResponse)))
           ELSE /\ outcome.kind = "Exception" /\ outcome.detail = ZERO_EVENTS
                /\ logged_count = None

\* the search returned {"events": [e1, e2]}: "OK" with the count 2
C13_Witness ==
    /\ prog = "validate_github_log_ingestion" /\ pc = "done"
    /\ Len(requests) = 1
    /\ EventsOf(LastResponse) = <<"e1", "e2">>
    /\ outcome.kind = "return" /\ outcome.detail = "OK"
    /\ logged_count = Some(2)

-----------------------------------------------------------------------------
(* Further properties of the facades and of Stage A *)

\* C14 (as claimed): a detections page request answered 429 is retried after
\* the backoff, so Stage A fails with the status 429 only once the retry
\* budget is used up: the last max_retries + 1 page responses were all 429
\* and a sleep preceded each retry.
C14_DetectionsRetryOn429 ==
    (prog = "main" /\ NumAlertCalls = 0
        /\ outcome.kind = "HTTPError" /\ outcome.detail = 429) =>
        /\ Len(requests) >= DEFAULT_MAX_RETRIES + 1
        /\ Len(sleeps) >= DEFAULT_MAX_RETRIES
        /\ \A i \in (Len(responses) - DEFAULT_MAX_RETRIES)..Len(responses) :
              i >= 1 => responses[i].status_code = 429

\* the arguments a caller supplied (did not leave at None), by facade
SuppliedKeys(i) ==
    IF requests[i].endpoint \in {":udmSearch", "events:udmSearch"}
    THEN {"query", "time_range_start_time", "time_range_end_time"}
         \cup (IF limit = None THEN {} ELSE {"limit"})
    ELSE IF requests[i].endpoint = DETECTIONS_ENDPOINT
    THEN {"rule_id", "start_time", "end_time", "list_basis"}
         \cup (IF i = 1 THEN {} ELSE {"page_token"})
    ELSE {"start_time", "end_time"}

C16_NothingSharedAcrossInvocations ==
    prog = "main" =>
        /\ NumPageCalls = 0 => raw_detections = <<>>
        /\ \A i \in DOMAIN requests :
              /\ requests[i].session = invocation
              /\ requests[i].params.end_time = Some(strftime(now))

\* C17: Stage A asserts no positive count.  While every page received has a
\* non-absent item list, empty or not, Stage A has not failed: after a page
\* without cursor validate_detection_generation has returned, and after a
\* page with a cursor the collection goes on with that cursor.
C17_EmptyPagesAreNotFatal ==
    (prog = "main" /\ NumPageCalls >= 1
        /\ \A i \in 1..NumPageCalls : ~PageIsError(responses[i]) /\ PageHasItems(responses[i])) =>
        /\ NumAlertCalls = 0 => outcome.kind = "running"
        /\ ~PageHasCursor(responses[NumPageCalls]) => StageAReturned
        /\ PageHasCursor(responses[NumPageCalls]) =>
              /\ pc = "validate_detection_generation"
              /\ next_page_token = Some(PageCursor(responses[NumPageCalls]))

\* an empty page with a cursor, then an empty page without: Stage A has
\* succeeded with a total of zero detections
C17_Witness ==
    /\ prog = "main" /\ pc = "validate_alert_generation"
    /\ NumPageCalls = 2
    /\ PageItems(responses[1]) = <<>> /\ PageHasCursor(responses[1])
    /\ PageItems(responses[2]) = <<>> /\ ~PageHasCursor(responses[2])
    /\ raw_detections = <<>>
    /\ outcome.kind = "running"

\* C18: the collection loop has no page bound of its own.  It leaves the
\* loop exactly on a page without cursor, with an absent item list or with
\* an HTTP error; as long as every page has items and a cursor it stays in
\* the loop, and every iteration either ends the loop or issues one more
\* page request, so with a cursor on every page the number of page requests
\* passes every number explored.
C18_InLoop == prog = "main" /\ pc = "validate_detection_generation"
C18_OnlyTheBackendEndsTheLoop ==
    (prog = "main" /\ NumPageCalls >= 1) =>
        (C18_InLoop <=>
            \A i \in 1..NumPageCalls : ~PageFailed(responses[i]) /\ PageHasCursor(responses[i]))
C18_NoInternalPageBound ==
    /\ []C18_OnlyTheBackendEndsTheLoop
    /\ \A n \in 0..(MaxPages - 1) :
          (C18_InLoop /\ NumPageCalls = n) ~> (~C18_InLoop \/ NumPageCalls = n + 1)

\* a cyclic cursor sequence tok1, tok2, tok1: three pages and still looping
C18_Witness ==
    /\ C18_InLoop
    /\ NumPageCalls >= 3
    /\ PageCursor(responses[1]) = "tok1"
    /\ PageCursor(responses[2]) = "tok2"
    /\ PageCursor(responses[3]) = "tok1"
    /\ next_page_token = Some("tok1")

IsPrefix(a, b) == Len(a) <= Len(b) /\ SubSeq(b, 1, Len(a)) = a

RECURSIVE SumOfPageLengths(_)
SumOfPageLengths(pages) ==
    IF pages = <<>> THEN 0
    ELSE (IF PageFailed(Head(pages)) THEN 0 ELSE Len(PageItems(Head(pages))))
         + SumOfPageLengths(Tail(pages))

\* C19: raw_detections is empty at the beginning of each run of
\* validate_detection_generation, every page call leaves its previous value
\* as a prefix of the new one, and its length is always the sum of the
\* lengths of the item lists of the pages received so far in the run.
C19_LengthInv ==
    prog = "main" =>
        /\ NumPageCalls = 0 => raw_detections = <<>>
        /\ Len(raw_detections) = SumOfPageLengths(SubSeq(responses, 1, NumPageCalls))
C19_PageCallStep ==
    (prog = "main" /\ pc = "validate_detection_generation")
        => IsPrefix(raw_detections, raw_detections')
C19_AccumulatorGrowsMonotonically == []C19_LengthInv /\ [][C19_PageCallStep]_vars

\* in the second run of the process: [d1], then [d2, d3], still collecting
C19_Witness ==
    /\ prog = "main" /\ pc = "validate_detection_generation"
    /\ invocation = 2
    /\ NumPageCalls = 2
    /\ PageItems(responses[1]) = <<"d1">>
    /\ raw_detections = <<"d1", "d2", "d3">>

\* the cap the docstring of udm_search states for limit
MAX_LIMIT == 10000

\* C20 (as claimed): the limit parameter carried by a request of udm_search
\* is the caller's limit clamped to 10,000: min(limit, 10000).
C20_LimitIsClamped ==
    \A i \in DOMAIN requests :
        (requests[i].endpoint \in {":udmSearch", "events:udmSearch"} /\ limit # None) =>
            /\ "limit" \in DOMAIN requests[i].sent
            /\ requests[i].sent["limit"] =
                  (IF TheOne(limit) <= MAX_LIMIT THEN TheOne(limit) ELSE MAX_LIMIT)

====
